---- MODULE Spec2Model ----
(***************************************************************************)
(* Model of the batching/throttling Relay (src/src/Relay.ts, second        *)
(* version, lines 124-344) and of its bounded Queue (src/src/Queue.ts).    *)
(*                                                                         *)
(* The Relay is single threaded: every public method and every promise     *)
(* continuation runs to completion, so each is one action.  The points at  *)
(* which other code can run are the boundaries of Bottleneck (a scheduled  *)
(* job starts later; a dropped job's rejection is delivered later) and the *)
(* await of client.submit.                                                 *)
(***************************************************************************)
EXTENDS Integers, Sequences, FiniteSets

VARIABLES
    options,            \* this.options: submissionInterval, batchSize, maxQueueSize
    queue,              \* this.queue: Null or a Queue object
    limiter,            \* this.limiter: Null or the Bottleneck of this period
    submissionPending,  \* this.submissionPending
    flushWaiters,       \* this.flushWaiters: the resolve functions of flush calls
    flushTimer,         \* this.flushTimer: Null or the timer setTimeout returned
    timers,             \* the timers that are armed (set and neither fired nor cleared)
    now,                \* the clock, in units of time
    waiting,            \* jobs queued in this.limiter that have not begun
    running,            \* jobs awaiting client.submit: limiter id and batch
    rejected,           \* dropped jobs whose rejection .catch has not run yet
    limiters,           \* number of Bottleneck instances created so far
    callbacks,          \* per item, the callback invocations so far, in order
    errors,             \* 'error' events emitted so far, in order
    accepted,           \* batches the client resolved successfully, in order
    duplicates,         \* items of batches the client reported as already accepted
    calls,              \* client.submit calls so far: batch, limiter and how the
                        \* call settled
    activator,          \* the item whose submit() began the current Active period, or 0
    lastCall,           \* when and under which limiter client.submit was last called
    resolved,           \* flush calls whose promise has been resolved
    destroyed,          \* number of client.destroy() invocations
    submitted,          \* number of submit() calls so far (the next item id)
    flushes,            \* number of flush() calls so far (the next waiter id)
    starts,             \* number of start() calls so far
    stops,              \* number of stop() calls so far
    failures,           \* number of client.submit rejections so far
    tq,                 \* a stand-alone Queue object under test
    pushed,             \* every item pushed into tq, in order
    removed,            \* number of items remove() took out of tq
    lastOp              \* the last operation applied to tq and what it returned

relayVars == <<options, queue, limiter, submissionPending, flushWaiters,
               flushTimer, timers, now, waiting, running, rejected, limiters,
               callbacks, errors, accepted, duplicates, calls, lastCall, activator,
               resolved,
               destroyed, submitted, flushes, starts, stops, failures>>
queueVars == <<tq, pushed, removed, lastOp>>
vars == <<relayVars, queueVars>>

(***************************************************************************)
(* Bounds of the model.                                                    *)
(***************************************************************************)
MaxItems == 3       \* items passed to Relay.submit
MaxEvents == 2      \* start(), stop() and flush() calls and rejections of client.submit together
MaxTime == 3        \* the last instant of the clock
MaxPushes == 4      \* pushes into the stand-alone queue
MaxNum == 3         \* largest argument of head() and remove()
BatchSizes == {1, 2}        \* options.batchSize
QueueSizes == {0, 2}        \* options.maxQueueSize
Intervals == {2}            \* options.submissionInterval
Timeouts == {1, 2}          \* the timeout given to flush()
TestSizes == {-1, 0, 1, 2}  \* maxSize of the stand-alone queue

Items == 1 .. MaxItems
Null == [null |-> TRUE]

DEFAULT_OPTIONS == [submissionInterval |-> 2000, batchSize |-> 20, maxQueueSize |-> 10000]

DEFAULT_FLUSH_TIMEOUT == 10000

Min(a, b) == IF a < b THEN a ELSE b

(***************************************************************************)
(* Queue (src/src/Queue.ts)                                                *)
(***************************************************************************)
NewQueue(maxSize) == [contents |-> <<>>, maxSize |-> maxSize]

Size(q) == Len(q.contents)

\* Array.prototype.slice(0, num) for num >= 0
\* a slice that hands the items over newest first
SliceBackwards(s, num) ==
    LET n == Min(num, Len(s))
    IN  [k \in 1 .. n |-> s[n + 1 - k]]

Slice(s, num) == SubSeq(s, 1, Min(num, Len(s)))

\* Array.prototype.splice(-num): takes the items off the wrong end
SpliceTail(s, num) == SubSeq(s, 1, Len(s) - Min(num, Len(s)))

\* what Array.prototype.splice(0, num) leaves, for num >= 0
Splice(s, num) == SubSeq(s, Min(num, Len(s)) + 1, Len(s))

\* push that evicts with pop() instead of shift(): the new item is dropped
PushDropsNewest(q, item) ==
    LET appended == Append(q.contents, item)
    IN  IF q.maxSize > 0 /\ Len(appended) > q.maxSize
        THEN [queue   |-> q,
              dropped |-> <<item>>]
        ELSE [queue   |-> [q EXCEPT !.contents = appended],
              dropped |-> <<>>]

\* push that compares the length before the append: one item too many stays
PushLate(q, item) ==
    LET appended == Append(q.contents, item)
    IN  IF q.maxSize > 0 /\ Len(q.contents) > q.maxSize
        THEN [queue   |-> [q EXCEPT !.contents = Tail(appended)],
              dropped |-> <<Head(appended)>>]
        ELSE [queue   |-> [q EXCEPT !.contents = appended],
              dropped |-> <<>>]

\* push that evicts with >= : the queue never fills
PushEarly(q, item) ==
    LET appended == Append(q.contents, item)
    IN  IF q.maxSize > 0 /\ Len(appended) >= q.maxSize
        THEN [queue   |-> [q EXCEPT !.contents = Tail(appended)],
              dropped |-> <<Head(appended)>>]
        ELSE [queue   |-> [q EXCEPT !.contents = appended],
              dropped |-> <<>>]

\* push that takes maxSize 0 for a capacity of no items
PushZeroCapacity(q, item) ==
    LET appended == Append(q.contents, item)
    IN  IF q.maxSize >= 0 /\ Len(appended) > q.maxSize
        THEN [queue   |-> [q EXCEPT !.contents = Tail(appended)],
              dropped |-> <<Head(appended)>>]
        ELSE [queue   |-> [q EXCEPT !.contents = appended],
              dropped |-> <<>>]

\* push(item): the queue afterwards and the returned item (<<>> for undefined)
Push(q, item) ==
    LET appended == Append(q.contents, item)
    IN  IF q.maxSize > 0 /\ Len(appended) > q.maxSize
        THEN [queue   |-> [q EXCEPT !.contents = Tail(appended)],
              dropped |-> <<Head(appended)>>]
        ELSE [queue   |-> [q EXCEPT !.contents = appended],
              dropped |-> <<>>]

\* head that returns the newest num items
QueueHeadNewest(q, num) ==
    LET n == Min(IF num < 0 THEN 0 ELSE num, Len(q.contents))
    IN  [k \in 1 .. n |-> q.contents[Len(q.contents) - n + k]]

\* head that ignores num and returns everything queued
QueueHeadAll(q, num) == q.contents

QueueHead(q, num) == Slice(q.contents, num)

Remove(q, num) == [q EXCEPT !.contents = Splice(q.contents, num)]

(***************************************************************************)
(* Relay (src/src/Relay.ts).  The handlers are operators on the record of  *)
(* the relay's fields, so that a handler that calls another one is the     *)
(* composition of the two.                                                 *)
(***************************************************************************)
State ==
    [options |-> options, queue |-> queue, limiter |-> limiter,
     submissionPending |-> submissionPending, flushWaiters |-> flushWaiters,
     flushTimer |-> flushTimer, timers |-> timers, now |-> now,
     waiting |-> waiting, running |-> running,
     rejected |-> rejected, limiters |-> limiters, callbacks |-> callbacks,
     errors |-> errors, accepted |-> accepted, calls |-> calls,
     duplicates |-> duplicates, lastCall |-> lastCall, activator |-> activator,
     resolved |-> resolved, destroyed |-> destroyed, submitted |-> submitted,
     flushes |-> flushes, starts |-> starts, stops |-> stops,
     failures |-> failures]

Becomes(r) ==
    /\ options' = r.options
    /\ queue' = r.queue
    /\ limiter' = r.limiter
    /\ submissionPending' = r.submissionPending
    /\ flushWaiters' = r.flushWaiters
    /\ flushTimer' = r.flushTimer
    /\ timers' = r.timers
    /\ now' = r.now
    /\ waiting' = r.waiting
    /\ running' = r.running
    /\ rejected' = r.rejected
    /\ limiters' = r.limiters
    /\ callbacks' = r.callbacks
    /\ errors' = r.errors
    /\ accepted' = r.accepted
    /\ calls' = r.calls
    /\ lastCall' = r.lastCall
    /\ activator' = r.activator
    /\ duplicates' = r.duplicates
    /\ resolved' = r.resolved
    /\ destroyed' = r.destroyed
    /\ submitted' = r.submitted
    /\ flushes' = r.flushes
    /\ starts' = r.starts
    /\ stops' = r.stops
    /\ failures' = r.failures

\* the arguments an item's callback is invoked with
Success == [err |-> "null", ok |-> "true"]
Failure(message) == [err |-> message, ok |-> "undefined"]
TransportClosed == Failure("Transport closed")
QueueOverflow == Failure("Queue overflow: log item dropped")

\* the outcomes of client.submit: it resolves, or rejects with an error name
Resolves == "resolved"
Pending == "pending"
ErrorNames == {"DataAlreadyAcceptedException", "InvalidSequenceTokenException", "FAIL"}
LimiterStopped == "This limiter has been stopped."

InSeq(x, s) == \E k \in 1 .. Len(s) : s[k] = x

\* for (const item of items) item.callback(...)
Notify(cbs, items, args) ==
    [i \in Items |-> IF InSeq(i, items) THEN Append(cbs[i], args) ELSE cbs[i]]

\* for (const resolve of waiters) resolve()
Resolve(r, waiters) ==
    [r EXCEPT !.resolved = @ \cup {[id |-> w.id, waited |-> TRUE] : w \in waiters}]

\* clearTimeout(this.flushTimer); this.flushTimer = null
ClearFlushTimer(r) ==
    IF r.flushTimer # Null
    THEN [r EXCEPT !.timers = @ \ {r.flushTimer}, !.flushTimer = Null]
    ELSE r

\* resolveFlush that completes the waiters and leaves the timer armed
resolveFlushKeepsTimer(r) ==
    [Resolve(r, r.flushWaiters) EXCEPT !.flushWaiters = {}]

resolveFlush(r) ==
    LET r1 == ClearFlushTimer(r)
    IN  [Resolve(r1, r1.flushWaiters) EXCEPT !.flushWaiters = {}]

scheduleSubmission(r) ==
    IF r.submissionPending \/ r.limiter = Null \/ r.queue = Null
    THEN r
    ELSE [r EXCEPT !.submissionPending = TRUE, !.waiting = @ + 1]

\* start() without the guard: an Active relay gets a new queue and limiter
startAlways(r) ==
    [r EXCEPT !.limiter = [id |-> r.limiters + 1, nextRequest |-> 0],
              !.limiters = @ + 1,
              !.queue = NewQueue(r.options.maxQueueSize)]

start(r) ==
    IF r.queue # Null
    THEN r
    ELSE [r EXCEPT !.limiter = [id |-> r.limiters + 1, nextRequest |-> 0],
                   !.limiters = @ + 1,
                   !.queue = NewQueue(r.options.maxQueueSize),
                   !.activator = 0]

\* pendingItems taken one short: the newest queued item is forgotten
PendingItemsShort(q) == IF q # Null THEN QueueHead(q, Size(q) - 1) ELSE <<>>

\* const pendingItems = this.queue ? this.queue.head(this.queue.size) : []
PendingItems(q) == IF q # Null THEN QueueHead(q, Size(q)) ELSE <<>>

\* stop() that leaves the flush waiters and their timer alone
stopKeepsFlush(r) ==
    LET pendingItems == PendingItems(r.queue)
    IN  [r EXCEPT !.queue = Null,
                  !.submissionPending = FALSE,
                  !.rejected = @ + r.waiting,
                  !.waiting = 0,
                  !.limiter = Null,
                  !.destroyed = @ + 1,
                  !.callbacks = Notify(@, pendingItems, TransportClosed),
                  !.activator = 0,
                  !.stops = @ + 1]

\* stop() that reports a relay that is not started on the error channel
stopComplains(r) ==
    LET r1 == resolveFlush(r)
        pendingItems == PendingItems(r1.queue)
    IN  [r1 EXCEPT !.queue = Null,
                   !.submissionPending = FALSE,
                   !.rejected = @ + r1.waiting,
                   !.waiting = 0,
                   !.limiter = Null,
                   !.destroyed = @ + 1,
                   !.callbacks = Notify(@, pendingItems, TransportClosed),
                   !.errors = IF r.queue = Null THEN Append(@, "Not started") ELSE @,
                   !.activator = 0,
                  !.stops = @ + 1]

\* stop() that leaves the jobs waiting in the limiter where they are
stopKeepsWaiting(r) ==
    LET r1 == resolveFlush(r)
        pendingItems == PendingItems(r1.queue)
    IN  [r1 EXCEPT !.queue = Null,
                   !.submissionPending = FALSE,
                   !.limiter = Null,
                   !.destroyed = @ + 1,
                   !.callbacks = Notify(@, pendingItems, TransportClosed),
                   !.activator = 0,
                   !.stops = @ + 1]

\* stop() that leaves this.submissionPending as it is
stopKeepsPending(r) ==
    LET r1 == resolveFlush(r)
        pendingItems == PendingItems(r1.queue)
    IN  [r1 EXCEPT !.queue = Null,
                   !.rejected = @ + r1.waiting,
                   !.waiting = 0,
                   !.limiter = Null,
                   !.destroyed = @ + 1,
                   !.callbacks = Notify(@, pendingItems, TransportClosed),
                   !.activator = 0,
                   !.stops = @ + 1]

stop(r) ==
    LET r1 == resolveFlush(r)
        pendingItems == PendingItems(r1.queue)
    IN  [r1 EXCEPT !.queue = Null,
                   !.submissionPending = FALSE,
                   !.rejected = @ + r1.waiting,
                   !.waiting = 0,
                   !.limiter = Null,
                   !.destroyed = @ + 1,
                   !.callbacks = Notify(@, pendingItems, TransportClosed),
                   !.activator = 0,
                  !.stops = @ + 1]

submit(r, item) ==
    LET r1 == start(r)
        p == Push(r1.queue, item)
        r2 == [r1 EXCEPT !.queue = p.queue,
                         !.callbacks = Notify(@, p.dropped, QueueOverflow),
                         !.activator = IF r.queue = Null THEN item ELSE @,
                         !.submitted = @ + 1]
    IN  scheduleSubmission(r2)

\* stop() whose callbacks run while the relay still has its queue: the first k
\* are invoked, the k-th calls submit(item), and only then is the relay made
\* Inactive
stopNotifiesFirst(r, item, k) ==
    LET r1 == resolveFlush(r)
        pendingItems == PendingItems(r1.queue)
        r2 == [r1 EXCEPT !.callbacks = Notify(@, SubSeq(pendingItems, 1, k), TransportClosed)]
        r3 == submit(r2, item)
        r4 == [r3 EXCEPT !.callbacks = Notify(@, SubSeq(pendingItems, k + 1, Len(pendingItems)),
                                              TransportClosed)]
    IN  [r4 EXCEPT !.queue = Null,
                   !.submissionPending = FALSE,
                   !.rejected = @ + r4.waiting,
                   !.waiting = 0,
                   !.limiter = Null,
                   !.destroyed = @ + 1,
                   !.activator = 0,
                   !.stops = @ + 1]

\* stop() on a relay with items queued, where the callback of the k-th of them
\* calls submit(item): everything up to client.destroy() is done, the first k
\* callbacks are invoked, submit(item) runs, and the other callbacks follow
stopCallbackSubmits(r, item, k) ==
    LET r1 == resolveFlush(r)
        pendingItems == PendingItems(r1.queue)
        r2 == [r1 EXCEPT !.queue = Null,
                         !.submissionPending = FALSE,
                         !.rejected = @ + r1.waiting,
                         !.waiting = 0,
                         !.limiter = Null,
                         !.destroyed = @ + 1,
                         !.activator = 0,
                         !.stops = @ + 1]
        r3 == [r2 EXCEPT !.callbacks = Notify(@, SubSeq(pendingItems, 1, k), TransportClosed)]
        r4 == submit(r3, item)
    IN  [r4 EXCEPT !.callbacks = Notify(@, SubSeq(pendingItems, k + 1, Len(pendingItems)),
                                        TransportClosed)]

\* flush() that sets no timer at all
SetNoTimer(r, waiter, timeout) == r

\* flush() that sets a timer for every call, without looking at this.flushTimer
SetTimerAlways(r, waiter, timeout) ==
    LET timer == [by |-> waiter, deadline |-> r.now + timeout]
    IN  [r EXCEPT !.flushTimer = timer, !.timers = @ \cup {timer}]

\* this.flushTimer = setTimeout(() => this.resolveFlush(), timeout), if none is set
SetFlushTimer(r, waiter, timeout) ==
    IF r.flushTimer = Null
    THEN LET timer == [by |-> waiter, deadline |-> r.now + timeout]
         IN  [r EXCEPT !.flushTimer = timer, !.timers = @ \cup {timer}]
    ELSE r

\* the resolve function of the promise flush() returns, with what the call
\* was made with: the items submitted before it and the end of its timeout
Waiter(r, waiter, timeout) ==
    [id |-> waiter, before |-> r.submitted, deadline |-> r.now + timeout]

\* flush() that schedules a submission before it looks at the queue
flushSchedulesFirst(r, waiter, timeout) ==
    LET r1 == scheduleSubmission(r)
    IN  IF r1.queue = Null \/ Size(r1.queue) = 0
        THEN [r1 EXCEPT !.resolved = @ \cup {[id |-> waiter, waited |-> FALSE]},
                        !.flushes = @ + 1]
        ELSE LET r2 == [r1 EXCEPT !.flushWaiters = @ \cup {Waiter(r, waiter, timeout)}]
             IN  [SetFlushTimer(r2, waiter, timeout) EXCEPT !.flushes = @ + 1]

flush(r, waiter, timeout) ==
    IF r.queue = Null \/ Size(r.queue) = 0
    THEN [r EXCEPT !.resolved = @ \cup {[id |-> waiter, waited |-> FALSE]},
                   !.flushes = @ + 1]
    ELSE LET r1 == scheduleSubmission(r)
             r2 == [r1 EXCEPT !.flushWaiters = @ \cup {Waiter(r, waiter, timeout)}]
         IN  [SetFlushTimer(r2, waiter, timeout) EXCEPT !.flushes = @ + 1]

\* the callback given to setTimeout in flush(), when the timer fires
timedOut(r, timer) == resolveFlush([r EXCEPT !.timers = @ \ {timer}])

\* submitInternal that leaves this.submissionPending set
submitInternalKeepsFlag(r) ==
    LET r1 == [r EXCEPT !.waiting = @ - 1]
    IN  IF r1.queue = Null \/ Size(r1.queue) = 0
        THEN r1
        ELSE LET batch == QueueHead(r1.queue, r1.options.batchSize)
                 call == [batch |-> batch, limiter |-> r1.limiter.id, outcome |-> Pending]
             IN  [r1 EXCEPT !.running = @ \cup {[limiter |-> r1.limiter.id, batch |-> batch,
                                                call |-> Len(r1.calls) + 1]},
                            !.calls = Append(@, call),
                            !.lastCall = [at |-> r1.now, limiter |-> r1.limiter.id]]

\* submitInternal up to the await of client.submit
submitInternal(r) ==
    LET r1 == [r EXCEPT !.submissionPending = FALSE, !.waiting = @ - 1]
    IN  IF r1.queue = Null \/ Size(r1.queue) = 0
        THEN r1
        ELSE LET batch == QueueHead(r1.queue, r1.options.batchSize)
                 call == [batch |-> batch, limiter |-> r1.limiter.id, outcome |-> Pending]
             IN  [r1 EXCEPT !.running = @ \cup {[limiter |-> r1.limiter.id, batch |-> batch,
                                                call |-> Len(r1.calls) + 1]},
                            !.calls = Append(@, call),
                            !.lastCall = [at |-> r1.now, limiter |-> r1.limiter.id]]

onSubmitted(r, batch) ==
    IF r.queue = Null
    THEN r
    ELSE [r EXCEPT !.queue = Remove(@, Len(batch)),
                   !.callbacks = Notify(@, batch, Success)]

\* onError that emits nothing for an unrecognized error
onErrorSwallows(r, name, batch) ==
    IF r.queue = Null
    THEN r
    ELSE IF name = "DataAlreadyAcceptedException"
         THEN [r EXCEPT !.queue = Remove(@, Len(batch))]
         ELSE r

\* onError that leaves a batch reported as already accepted in the queue
onErrorKeepsDuplicate(r, name, batch) ==
    IF r.queue = Null
    THEN r
    ELSE IF name = "DataAlreadyAcceptedException" \/ name = "InvalidSequenceTokenException"
         THEN r
         ELSE [r EXCEPT !.errors = Append(@, name)]

\* onError that discards the batch on a stale sequence token as well
onErrorDropsStale(r, name, batch) ==
    IF r.queue = Null
    THEN r
    ELSE IF name = "DataAlreadyAcceptedException" \/ name = "InvalidSequenceTokenException"
         THEN [r EXCEPT !.queue = Remove(@, Len(batch))]
         ELSE [r EXCEPT !.errors = Append(@, name)]

\* onError that notifies the items of a batch reported as already accepted of
\* success
onErrorReportsSuccess(r, name, batch) ==
    IF r.queue = Null
    THEN r
    ELSE IF name = "DataAlreadyAcceptedException"
         THEN [r EXCEPT !.queue = Remove(@, Len(batch)),
                        !.callbacks = Notify(@, batch, Success)]
         ELSE IF name = "InvalidSequenceTokenException"
              THEN r
              ELSE [r EXCEPT !.errors = Append(@, name)]

onError(r, name, batch) ==
    IF r.queue = Null
    THEN r
    ELSE IF name = "DataAlreadyAcceptedException"
         THEN [r EXCEPT !.queue = Remove(@, Len(batch))]
         ELSE IF name = "InvalidSequenceTokenException"
              THEN r
              ELSE [r EXCEPT !.errors = Append(@, name)]

\* submitInternal that ends without scheduling the next attempt
ContinueNever(r) == IF r.queue # Null /\ Size(r.queue) > 0 THEN r ELSE resolveFlush(r)

\* if (this.queue && this.queue.size > 0) scheduleSubmission() else resolveFlush()
Continue(r) ==
    IF r.queue # Null /\ Size(r.queue) > 0
    THEN scheduleSubmission(r)
    ELSE resolveFlush(r)

\* submitInternal from the point where client.submit settles
settled(r, job, outcome) ==
    LET r0 == [r EXCEPT !.running = @ \ {job}, !.calls[job.call].outcome = outcome]
    IN  IF outcome = Resolves
        THEN Continue(onSubmitted([r0 EXCEPT !.accepted = @ \o job.batch], job.batch))
        ELSE LET dups == IF outcome = "DataAlreadyAcceptedException"
                         THEN {job.batch[k] : k \in 1 .. Len(job.batch)}
                         ELSE {}
                 r1 == [r0 EXCEPT !.failures = @ + 1, !.duplicates = @ \cup dups]
             IN  Continue(onError(r1, outcome, job.batch))

\* the .catch of the promise limiter.schedule returned, for a dropped job
dropped(r) ==
    [r EXCEPT !.rejected = @ - 1,
              !.submissionPending = FALSE,
              !.errors = IF r.queue # Null THEN Append(@, LimiterStopped) ELSE @]

\* Bottleneck with maxConcurrent 1: a waiting job of the relay's limiter may
\* begin when that limiter runs no job
MayBegin(r) ==
    /\ r.limiter # Null
    /\ r.waiting > 0
    /\ \A j \in r.running : j.limiter # r.limiter.id

\* a limiter created without minTime
NoMinTime(r) == TRUE

\* Bottleneck with minTime: submissionInterval: a job may begin no earlier than
\* minTime after the limiter's last job began
InTime(r) == r.now >= r.limiter.nextRequest

\* Bottleneck begins the job: it notes when the next one may begin and calls
\* the function it was given, () => this.submitInternal()
launch(r) ==
    submitInternal([r EXCEPT !.limiter.nextRequest = r.now + r.options.submissionInterval])

(***************************************************************************)
(* The actions of the relay                                                *)
(***************************************************************************)
\* Under Spec the clock stands still: an armed timer may fire and a waiting
\* job may begin at any moment.  TimedSpec, further down, lets the clock run.

\* the constructor: { ...DEFAULT_OPTIONS, ...options }, nothing started
RelayInit(opts) ==
    /\ options = opts
    /\ queue = Null
    /\ limiter = Null
    /\ submissionPending = FALSE
    /\ flushWaiters = {}
    /\ flushTimer = Null
    /\ timers = {}
    /\ now = 0
    /\ waiting = 0
    /\ running = {}
    /\ rejected = 0
    /\ limiters = 0
    /\ callbacks = [i \in Items |-> <<>>]
    /\ errors = <<>>
    /\ accepted = <<>>
    /\ calls = <<>>
    /\ lastCall = Null
    /\ activator = 0
    /\ duplicates = {}
    /\ resolved = {}
    /\ destroyed = 0
    /\ submitted = 0
    /\ flushes = 0
    /\ starts = 0
    /\ stops = 0
    /\ failures = 0

\* new Queue(maxSize)
QueueInit(maxSize) ==
    /\ tq = NewQueue(maxSize)
    /\ pushed = <<>>
    /\ removed = 0
    /\ lastOp = [op |-> "new", before |-> <<>>, arg |-> maxSize, result |-> <<>>]

Init ==
    /\ \E opts \in [submissionInterval : Intervals, batchSize : BatchSizes,
                    maxQueueSize : QueueSizes] : RelayInit(opts)
    /\ QueueInit(0)

\* what remains of the bound on start, stop, flush and rejections
Budget == starts + stops + flushes + failures < MaxEvents

Start ==
    /\ Budget
    /\ Becomes([start(State) EXCEPT !.starts = @ + 1])
    /\ UNCHANGED queueVars

Stop ==
    /\ Budget
    /\ Becomes(stop(State))
    /\ UNCHANGED queueVars

Submit ==
    /\ submitted < MaxItems
    /\ Becomes(submit(State, submitted + 1))
    /\ UNCHANGED queueVars

Flush ==
    /\ Budget
    /\ Becomes(flush(State, flushes + 1, DEFAULT_FLUSH_TIMEOUT))
    /\ UNCHANGED queueVars

FlushTimeout ==
    /\ \E timer \in timers : Becomes(timedOut(State, timer))
    /\ UNCHANGED queueVars

JobBegins ==
    /\ MayBegin(State)
    /\ Becomes(launch(State))
    /\ UNCHANGED queueVars

ClientSettles ==
    /\ \E job \in running, outcome \in {Resolves} \cup ErrorNames :
          /\ outcome # Resolves => Budget
          /\ Becomes(settled(State, job, outcome))
    /\ UNCHANGED queueVars

JobDropped ==
    /\ rejected > 0
    /\ Becomes(dropped(State))
    /\ UNCHANGED queueVars

Next ==
    \/ Start
    \/ Stop
    \/ Submit
    \/ Flush
    \/ FlushTimeout
    \/ JobBegins
    \/ ClientSettles
    \/ JobDropped

Spec == Init /\ [][Next]_vars

(***************************************************************************)
(* One Active period under a running clock: submit() and flush(timeout)    *)
(* calls, no start() and no stop().  A timer fires at its deadline; a job  *)
(* of the limiter begins at any time from the moment minTime allows it;    *)
(* the client settles whenever it does.                                    *)
(***************************************************************************)
TimedFlush ==
    /\ Budget
    /\ \E timeout \in Timeouts : Becomes(flush(State, flushes + 1, timeout))
    /\ UNCHANGED queueVars

TimerFires ==
    /\ \E timer \in timers :
          /\ timer.deadline <= now
          /\ Becomes(timedOut(State, timer))
    /\ UNCHANGED queueVars

TimedJobBegins ==
    /\ MayBegin(State)
    /\ InTime(State)
    /\ Becomes(launch(State))
    /\ UNCHANGED queueVars

\* time passes, but not beyond the deadline of an armed timer
Tick ==
    /\ now < MaxTime
    /\ \A timer \in timers : timer.deadline > now
    /\ Becomes([State EXCEPT !.now = @ + 1])
    /\ UNCHANGED queueVars

TimedNext ==
    \/ Submit
    \/ TimedFlush
    \/ TimerFires
    \/ TimedJobBegins
    \/ ClientSettles
    \/ Tick

TimedSpec == Init /\ [][TimedNext]_vars

\* a relay that sends one item at a time and keeps at most two queued
FairInit ==
    /\ \E opts \in [submissionInterval : Intervals, batchSize : {1}, maxQueueSize : {2}] :
            RelayInit(opts)
    /\ QueueInit(0)

\* submit(), flush() and stop() calls, the timer, the limiter and the client
FairNext ==
    \/ Stop
    \/ Submit
    \/ Flush
    \/ FlushTimeout
    \/ JobBegins
    \/ ClientSettles

\* an armed timer fires in the end; nothing is assumed of the client
FairSpec == FairInit /\ [][FairNext]_vars /\ WF_vars(FlushTimeout)

(***************************************************************************)
(* A relay whose item callbacks call back into it: stop() is called with   *)
(* items queued, and one of the 'Transport closed' callbacks it invokes    *)
(* calls submit().                                                         *)
(***************************************************************************)
StopCallbackSubmits ==
    /\ Budget
    /\ submitted < MaxItems
    /\ queue # Null
    /\ \E k \in 1 .. Size(queue) : Becomes(stopCallbackSubmits(State, submitted + 1, k))
    /\ UNCHANGED queueVars

ReentrantNext ==
    \/ Submit
    \/ Flush
    \/ JobBegins
    \/ ClientSettles
    \/ JobDropped
    \/ StopCallbackSubmits

ReentrantSpec == Init /\ [][ReentrantNext]_vars

(***************************************************************************)
(* A Queue on its own: any sequence of push, head and remove               *)
(***************************************************************************)
QInit ==
    /\ RelayInit(DEFAULT_OPTIONS)
    /\ \E maxSize \in TestSizes : QueueInit(maxSize)

QPush ==
    /\ Len(pushed) < MaxPushes
    /\ LET item == Len(pushed) + 1
           p == Push(tq, item)
       IN  /\ tq' = p.queue
           /\ pushed' = Append(pushed, item)
           /\ lastOp' = [op |-> "push", before |-> tq.contents, arg |-> item,
                         result |-> p.dropped]
    /\ UNCHANGED <<removed, relayVars>>

QHead ==
    /\ \E num \in 0 .. MaxNum :
          lastOp' = [op |-> "head", before |-> tq.contents, arg |-> num,
                     result |-> QueueHead(tq, num)]
    /\ UNCHANGED <<tq, pushed, removed, relayVars>>

QRemove ==
    /\ \E num \in 0 .. MaxNum :
          /\ tq' = Remove(tq, num)
          /\ removed' = removed + Min(num, Size(tq))
          /\ lastOp' = [op |-> "remove", before |-> tq.contents, arg |-> num,
                        result |-> <<>>]
    /\ UNCHANGED <<pushed, relayVars>>

QNext ==
    \/ QPush
    \/ QHead
    \/ QRemove

QueueSpec == QInit /\ [][QNext]_vars

(***************************************************************************)
(* Properties of the relay's callbacks and lifecycle                        *)
(***************************************************************************)
InQueue(i) == queue # Null /\ InSeq(i, queue.contents)

\* the job began under a limiter that a stop() has since dropped
Stale(job) == limiter = Null \/ job.limiter # limiter.id

\* C1: every submitted item's callback is invoked exactly once over the
\* item's lifetime: never twice, and never zero times once the item has
\* left the queue.
ExactlyOnceCallback ==
    \A i \in Items :
        /\ Len(callbacks[i]) <= 1
        /\ (i <= submitted /\ ~InQueue(i)) => Len(callbacks[i]) = 1

\* C2: no item's callback is ever invoked more than once, also when the
\* item is notified by an overflow eviction or by stop() while its batch is
\* in flight at the client.
NeverCalledTwice == \A i \in Items : Len(callbacks[i]) <= 1

\* C3: a client call that was in flight when stop() was called and settles
\* afterwards invokes no callback and emits no error, whatever was called in
\* between (a reactivating submit() included).
PostStopNoOp ==
    [][\A job \in running :
          (job \notin running' /\ Stale(job))
              => (callbacks' = callbacks /\ errors' = errors)]_vars

\* C4: stop() on an Active relay invokes the callback of every item queued at
\* that moment (those of a batch in flight included) with 'Transport closed'
\* before it returns, and discards the queue.
StopNotifiesQueued ==
    [][(stops' = stops + 1 /\ queue # Null)
          => /\ queue' = Null
             /\ \A i \in Items :
                   InSeq(i, queue.contents)
                       => callbacks'[i] = Append(callbacks[i], TransportClosed)]_vars

\* C4 witness: a stop() has notified both items of a batch that is still in
\* flight at the client.
StopNotifiedInFlight ==
    /\ stops > 0
    /\ queue = Null
    /\ \E job \in running :
          /\ Len(job.batch) = 2
          /\ \A k \in 1 .. 2 : callbacks[job.batch[k]] = <<TransportClosed>>

\* C5: a submit() into a queue that holds maxQueueSize (> 0) items evicts
\* exactly the oldest queued item and invokes its callback with 'Queue
\* overflow: log item dropped' before it returns; no other callback is
\* invoked by that call and no error is emitted.
OverflowEvictsOldest ==
    [][(/\ submitted' = submitted + 1
        /\ queue # Null
        /\ options.maxQueueSize > 0
        /\ Size(queue) = options.maxQueueSize)
          => /\ callbacks' = [callbacks EXCEPT ![queue.contents[1]] = Append(@, QueueOverflow)]
             /\ errors' = errors
             /\ queue' # Null
             /\ queue'.contents = Append(Tail(queue.contents), submitted')]_vars

\* C5 witness: the third submit into a queue of capacity 2 has notified the
\* first item of the overflow, and the two items still queued have not been
\* notified of anything.
OverflowHappened ==
    /\ queue # Null
    /\ options.maxQueueSize = 2
    /\ queue.contents = <<2, 3>>
    /\ callbacks[1] = <<QueueOverflow>>
    /\ callbacks[2] = <<>>
    /\ callbacks[3] = <<>>

\* C10: at most one client.submit call is in flight at any time, also when
\* stop() and a reactivating submit() occur while a call is in flight.
AtMostOneInFlight == Cardinality(running) <= 1

(***************************************************************************)
(* One Active period that is left to drain: every item is submitted before *)
(* the first client call, the relay is not stopped, a waiting job begins   *)
(* and the client settles every call, failing a bounded number of times.   *)
(***************************************************************************)
EarlySubmit ==
    /\ calls = <<>>
    /\ Submit

DrainNext ==
    \/ EarlySubmit
    \/ JobBegins
    \/ ClientSettles

\* the limiter begins a waiting job and the client settles the call it was given
Progress == JobBegins \/ ClientSettles

DrainSpec == Init /\ [][DrainNext]_vars /\ WF_vars(Progress)

(***************************************************************************)
(* Properties of the Queue                                                 *)
(***************************************************************************)
\* the last n items of s, in order
LastItems(s, n) == [k \in 1 .. n |-> s[Len(s) - n + k]]

\* C6: with capacity M > 0, size <= M after every push, head and remove; and
\* as long as nothing was removed, head(size) is the min(M, number pushed)
\* most recently pushed items in arrival order.
QueueBounded ==
    tq.maxSize > 0 =>
        /\ Size(tq) <= tq.maxSize
        /\ removed = 0 =>
              QueueHead(tq, Size(tq)) = LastItems(pushed, Min(tq.maxSize, Len(pushed)))

\* C6 witness: four pushes into a queue of capacity 2, nothing removed.
QueueOverfilled ==
    /\ tq.maxSize = 2
    /\ Len(pushed) = 4
    /\ removed = 0
    /\ lastOp.op = "push"

\* C7: push returns an evicted item iff the queue held exactly capacity (> 0)
\* items before; it is the head before the push and is no longer in the
\* queue; in every other case push returns nothing and only appends.
PushEvictsIffFull ==
    lastOp.op = "push" =>
        LET full == tq.maxSize > 0 /\ Len(lastOp.before) = tq.maxSize
        IN  /\ (lastOp.result # <<>>) <=> full
            /\ full => /\ lastOp.result = <<lastOp.before[1]>>
                       /\ tq.contents = Append(Tail(lastOp.before), lastOp.arg)
                       /\ ~InSeq(lastOp.before[1], tq.contents)
            /\ ~full => tq.contents = Append(lastOp.before, lastOp.arg)

\* C7 witness: a push into a full queue of capacity 2 returned the oldest item.
PushEvicted ==
    /\ lastOp.op = "push"
    /\ tq.maxSize = 2
    /\ Len(lastOp.before) = 2
    /\ lastOp.result = <<lastOp.before[1]>>

\* C8: head(n) returns the first min(n, size) items in order and leaves the
\* queue as it was; remove(n) deletes exactly the first min(n, size) items and
\* keeps the rest in order; head(0) is empty and remove(0) changes nothing.
HeadAndRemove ==
    LET n == Min(lastOp.arg, Len(lastOp.before))
    IN  /\ lastOp.op = "head" =>
              /\ Len(lastOp.result) = n
              /\ \A k \in 1 .. n : lastOp.result[k] = lastOp.before[k]
              /\ tq.contents = lastOp.before
        /\ lastOp.op = "remove" =>
              /\ Size(tq) = Len(lastOp.before) - n
              /\ \A k \in 1 .. Size(tq) : tq.contents[k] = lastOp.before[n + k]
        /\ (lastOp.op = "head" /\ lastOp.arg = 0) => lastOp.result = <<>>
        /\ (lastOp.op = "remove" /\ lastOp.arg = 0) => tq.contents = lastOp.before

\* C8 witness: remove(2) on a queue of three items left the third one.
RemovedSome ==
    /\ lastOp.op = "remove"
    /\ lastOp.arg = 2
    /\ Len(lastOp.before) = 3
    /\ tq.contents = <<lastOp.before[3]>>

\* C9: a Queue of capacity <= 0 is unbounded: push never evicts and returns
\* nothing, and size is the number of pushes less the number of items removed.
UnboundedQueue ==
    tq.maxSize <= 0 =>
        /\ Size(tq) = Len(pushed) - removed
        /\ lastOp.op = "push" => lastOp.result = <<>>

\* C9 witness: a queue of capacity -1 holds more items than any bounded queue
\* of the model, after a remove.
UnboundedGrew ==
    /\ tq.maxSize = -1
    /\ removed = 1
    /\ Size(tq) = 3
    /\ lastOp.op = "push"


\* ------------------------------------------------------------------
\* Properties of the submission interval and of flush()

\* the flush() call with this id has been completed
Completed(w) == \E x \in resolved : x.id = w
CompletedNext(w) == \E x \in resolved' : x.id = w

\* C11: within one Active period, a client.submit call begins no earlier than
\* submissionInterval after the previous one began, flush() or not
MinSpacing ==
    [][(Len(calls') = Len(calls) + 1 /\ lastCall # Null
            /\ limiter # Null /\ lastCall.limiter = limiter.id)
        => now >= lastCall.at + options.submissionInterval]_vars

\* two calls of one Active period, the second asked for by a flush(), exactly
\* submissionInterval apart
SpacedCalls ==
    /\ Len(calls) = 2
    /\ calls[1].limiter = calls[2].limiter
    /\ lastCall.at = options.submissionInterval
    /\ flushes > 0

\* C12: an outstanding flush() has a non-empty queue to wait for and is still
\* within its own timeout
FlushWithinTimeout ==
    \A w \in flushWaiters :
        /\ now <= w.deadline
        /\ queue # Null /\ Size(queue) > 0

\* C13: whenever a flush() is waiting, a state follows in which every flush()
\* called so far is completed
EveryFlushCompletes ==
    (flushWaiters # {}) ~> (\A w \in 1 .. flushes : Completed(w))

\* a flush() that waited was completed while the client still had not answered
\* the only call made
FlushTimedOutInFlight ==
    /\ \E x \in resolved : x.waited
    /\ running # {}
    /\ Len(calls) = 1
    /\ stops = 0 /\ failures = 0 /\ accepted = <<>>

\* C14: flush() on an Inactive relay or on an empty queue completes at once,
\* schedules nothing and arms no timer
FlushNoOp ==
    [][(flushes' = flushes + 1 /\ (queue = Null \/ Size(queue) = 0))
        => /\ CompletedNext(flushes')
           /\ UNCHANGED <<queue, limiter, submissionPending, flushWaiters,
                          flushTimer, timers, waiting, running, rejected,
                          limiters, callbacks, errors, calls>>]_vars

\* flush() was called on an Active relay with nothing queued and nothing scheduled
FlushedEmpty ==
    /\ queue # Null /\ Size(queue) = 0
    /\ starts = 1 /\ submitted = 0
    /\ resolved = {[id |-> 1, waited |-> FALSE]}
    /\ waiting = 0 /\ ~submissionPending /\ timers = {}

\* C15: stop() completes every outstanding flush() and cancels the flush timer
StopResolvesFlush ==
    [][stops' = stops + 1
        => /\ flushWaiters' = {}
           /\ flushTimer' = Null
           /\ timers' = {}
           /\ \A w \in flushWaiters : CompletedNext(w.id)]_vars

\* stop() has run on a relay whose flush() had waited, with the batch unanswered
StoppedWhileFlushing ==
    /\ stops = 1 /\ queue = Null
    /\ \E x \in resolved : x.waited
    /\ running # {}
    /\ failures = 0 /\ accepted = <<>>

\* C16: at most one flush timer is armed, it is the one of the earliest
\* outstanding flush(), and outstanding flush() calls are completed all together
OneTimerAllTogether ==
    [][/\ Cardinality(timers') <= 1
       /\ flushWaiters' # {}
            => /\ flushTimer' # Null
               /\ timers' = {flushTimer'}
               /\ \A w \in flushWaiters' : flushTimer'.by <= w.id
       /\ \A w \in flushWaiters :
            w \notin flushWaiters'
                => /\ flushWaiters' = {}
                   /\ \A v \in flushWaiters : CompletedNext(v.id)]_vars

\* two flush() calls waited and both have been completed
TwoFlushesResolved ==
    /\ Cardinality({x \in resolved : x.waited}) = 2
    /\ flushWaiters = {}

\* the item was accepted, reported as a duplicate, or notified of overflow
Delivered(i) ==
    \/ InSeq(i, accepted)
    \/ i \in duplicates
    \/ QueueOverflow \in {callbacks[i][k] : k \in 1 .. Len(callbacks[i])}

\* C17: a flush() completed before its timeout, and not by stop(), leaves every
\* item submitted before it delivered
FlushMeansDelivered ==
    [][/\ \A w \in flushWaiters :
            (w \notin flushWaiters' /\ now < w.deadline /\ stops' = stops)
                => \A i \in 1 .. w.before : Delivered(i)'
       /\ (flushes' = flushes + 1 /\ CompletedNext(flushes') /\ queue # Null)
                => \A i \in 1 .. submitted : Delivered(i)']_vars

StopIdempotent ==
    [][(stops' = stops + 1 /\ queue = Null)
        => UNCHANGED <<queue, limiter, submissionPending, flushWaiters,
                       flushTimer, timers, waiting, running, rejected, limiters,
                       callbacks, errors, resolved, calls>>]_vars

\* stop() was called twice on a relay started once, which had an item queued
StoppedTwice ==
    /\ stops = 2 /\ limiters = 1 /\ queue = Null
    /\ callbacks[1] = <<TransportClosed>>
    /\ errors = <<>>

\* C20: client.destroy has been called once for each time the relay went from
\* Active to Inactive
DestroyOncePerStop ==
    destroyed = limiters - (IF queue # Null THEN 1 ELSE 0)


\* ------------------------------------------------------------------
\* Properties of restart, of the error taxonomy and of the drain order

\* the call has settled in this step, with this outcome
Settled(k, outcome) == calls[k].outcome = Pending /\ calls'[k].outcome = outcome

Retryable == {"InvalidSequenceTokenException", "FAIL"}
Evicted(i) == InSeq(QueueOverflow, callbacks[i])
Increasing(s) == \A k \in 1 .. Len(s) - 1 : s[k] < s[k + 1]
IsPrefix(s, t) == Len(s) <= Len(t) /\ \A k \in 1 .. Len(s) : s[k] = t[k]
Count(x, s) == Cardinality({k \in 1 .. Len(s) : s[k] = x})

\* after a retryable failure or a first scheduling, a drain job is waiting
Rescheduled == submissionPending' /\ waiting' >= 1

\* C21: the item whose submit() activated the relay, once it is no longer
\* queued and was not evicted, with a client that never fails and no stop()
\* since, has been handed to the client in this Active period and notified
\* of success
ActivatorDelivered ==
    (/\ activator # 0
     /\ failures = 0
     /\ ~InQueue(activator)
     /\ ~Evicted(activator))
        => /\ \E k \in 1 .. Len(calls) :
                /\ calls[k].limiter = limiter.id
                /\ InSeq(activator, calls[k].batch)
                /\ calls[k].outcome = Resolves
           /\ callbacks[activator] = <<Success>>

\* C22: a call that fails with an unrecognized error while the relay is Active
\* emits exactly one error, leaves queue and callbacks alone and schedules
\* another attempt; in one Active period there are as many errors as such calls
FailEmitsOnce ==
    /\ [][\A k \in 1 .. Len(calls) :
            (Settled(k, "FAIL") /\ queue # Null)
                => /\ errors' = Append(errors, "FAIL")
                   /\ queue' = queue
                   /\ callbacks' = callbacks
                   /\ Size(queue) > 0 => Rescheduled]_vars
    /\ [](stops = 0
            => Len(errors) = Cardinality({k \in 1 .. Len(calls) : calls[k].outcome = "FAIL"}))

\* the same item failed twice in a row and two errors were emitted
FailedTwice ==
    /\ Len(calls) = 2
    /\ calls[1].outcome = "FAIL" /\ calls[2].outcome = "FAIL"
    /\ calls[1].batch = calls[2].batch
    /\ stops = 0
    /\ errors = <<"FAIL", "FAIL">>
    /\ \A i \in Items : callbacks[i] = <<>>
    /\ submissionPending

\* C23: a call that fails with DataAlreadyAcceptedException while the relay is
\* Active takes the batch out of the queue, emits nothing and invokes no callback
DuplicateRemovedSilently ==
    [][\A k \in 1 .. Len(calls) :
         (Settled(k, "DataAlreadyAcceptedException") /\ queue # Null)
            => /\ errors' = errors
               /\ callbacks' = callbacks
               /\ queue' # Null
               /\ Size(queue') = Size(queue) - Min(Len(calls[k].batch), Size(queue))
               /\ \A i \in Items :
                    InSeq(i, calls[k].batch) => ~InSeq(i, queue'.contents)]_vars

\* a batch of two was reported as already accepted and is gone without a trace
DuplicateHappened ==
    /\ Len(calls) = 1
    /\ calls[1].outcome = "DataAlreadyAcceptedException"
    /\ calls[1].batch = <<1, 2>>
    /\ queue # Null /\ Size(queue) = 0
    /\ errors = <<>>
    /\ callbacks[1] = <<>> /\ callbacks[2] = <<>>

\* C24: a call that fails with InvalidSequenceTokenException changes neither
\* queue nor callbacks, emits nothing and leaves another attempt scheduled; when
\* nothing else goes wrong each item is accepted and notified of success once
StaleTokenRetried ==
    /\ [][\A k \in 1 .. Len(calls) :
            Settled(k, "InvalidSequenceTokenException")
                => /\ errors' = errors
                   /\ queue' = queue
                   /\ callbacks' = callbacks
                   /\ (queue # Null /\ Size(queue) > 0) => Rescheduled]_vars
    /\ []((/\ stops = 0
           /\ \A i \in Items : ~Evicted(i)
           /\ \A k \in 1 .. Len(calls) :
                calls[k].outcome \in {Pending, Resolves, "InvalidSequenceTokenException"})
            => \A i \in Items :
                /\ Count(i, accepted) <= 1
                /\ callbacks[i] = IF InSeq(i, accepted) THEN <<Success>> ELSE <<>>)

\* the first call failed on the sequence token, the second carried the same
\* batch and was accepted
StaleTokenThenSuccess ==
    /\ Len(calls) = 2
    /\ calls[1].outcome = "InvalidSequenceTokenException"
    /\ calls[2].outcome = Resolves
    /\ calls[1].batch = calls[2].batch
    /\ accepted = calls[1].batch
    /\ errors = <<>>
    /\ callbacks[1] = <<Success>>

\* C25: nothing but a failure of the client is ever emitted on the error channel
ErrorsAreClientFailures ==
    \A k \in 1 .. Len(errors) : errors[k] = "FAIL"

\* the batches of the first k calls that the client accepted or reported as
\* already accepted, one after the other in the order of the calls
RECURSIVE AcceptedBatches(_)
AcceptedBatches(k) ==
    IF k = 0
    THEN <<>>
    ELSE AcceptedBatches(k - 1)
            \o (IF calls[k].outcome \in {Resolves, "DataAlreadyAcceptedException"}
                THEN calls[k].batch
                ELSE <<>>)

\* C26: every batch is in submission order, the batches the client accepted
\* make up, call after call, a subsequence of the submission order, and they
\* are the submission order itself as far as they go when nothing was evicted
\* and the relay was not stopped
DrainedInOrder ==
    /\ \A k \in 1 .. Len(calls) : Increasing(calls[k].batch)
    /\ Increasing(AcceptedBatches(Len(calls)))
    /\ (stops = 0 /\ \A i \in Items : ~Evicted(i))
            => \A k \in 1 .. Len(AcceptedBatches(Len(calls))) :
                    AcceptedBatches(Len(calls))[k] = k

\* three items were accepted in two batches, in the order of their submission
AcceptedInOrder ==
    /\ Len(calls) = 2
    /\ calls[1].outcome = Resolves /\ calls[2].outcome = Resolves
    /\ calls[1].batch = <<1, 2>> /\ calls[2].batch = <<3>>
    /\ accepted = <<1, 2, 3>>

BatchIsHead ==
    /\ [][Len(calls') = Len(calls) + 1
            => /\ queue # Null /\ Size(queue) > 0
               /\ Len(calls'[Len(calls')].batch) = Min(options.batchSize, Size(queue))
               /\ IsPrefix(calls'[Len(calls')].batch, queue.contents)
               /\ queue' = queue]_vars
    /\ [][(/\ queue # Null
           /\ stops' = stops /\ submitted' = submitted
           /\ \A k \in 1 .. Len(calls) : calls'[k].outcome = calls[k].outcome)
            => queue' = queue]_vars

\* a call carried the first two of three queued items, which are all still queued
HeadInFlight ==
    /\ queue # Null /\ queue.contents = <<1, 2, 3>>
    /\ options.batchSize = 2
    /\ \E job \in running : job.batch = <<1, 2>>

\* C30: when a call of the current Active period is accepted or reported as
\* already accepted, only items of its batch leave the queue
RemovedWereHandedOver ==
    [][\A k \in 1 .. Len(calls) :
         (/\ Settled(k, Resolves) \/ Settled(k, "DataAlreadyAcceptedException")
          /\ limiter # Null /\ calls[k].limiter = limiter.id)
            => \A i \in Items :
                (InQueue(i) /\ ~InSeq(i, queue'.contents)) => InSeq(i, calls[k].batch)]_vars


\* the least number of batches of b items that hold n items
Ceil(n, b) == (n + b - 1) \div b

\* what the queue holds once the first `submitted` items have been pushed
QueuedAtFirst ==
    LET all == [k \in 1 .. submitted |-> k]
        cap == options.maxQueueSize
    IN  IF cap > 0 /\ submitted > cap THEN LastItems(all, cap) ELSE all

\* nothing queued, nothing scheduled, nothing in flight
Quiet ==
    /\ queue = Null \/ Size(queue) = 0
    /\ ~submissionPending
    /\ waiting = 0
    /\ running = {}

\* with no failure so far, the k-th call carried the k-th batchSize items of
\* what was queued, and no more calls were made than it takes
ExactDrain ==
    LET n == Len(QueuedAtFirst)
        b == options.batchSize
    IN  failures = 0
            => /\ Len(calls) <= Ceil(n, b)
               /\ \A k \in 1 .. Len(calls) :
                    calls[k].batch = SubSeq(QueuedAtFirst, (k - 1) * b + 1, Min(k * b, n))
               /\ Quiet => Len(calls) = Ceil(n, b)

\* C28: once the items are queued and the relay is left alone, with a client
\* that fails a bounded number of times, the queue empties and the drain comes
\* to rest for good; with no failure that takes ceil(n / batchSize) calls, the
\* k-th with items (k-1)*batchSize+1 .. min(k*batchSize, n) of the queue
DrainTerminates ==
    /\ []ExactDrain
    /\ <>[]Quiet

\* three items were drained in two calls and the relay is at rest
DrainedInTwoCalls ==
    /\ Quiet
    /\ failures = 0
    /\ submitted = 3
    /\ Len(calls) = 2
    /\ calls[1].batch = <<1, 2>> /\ calls[2].batch = <<3>>
    /\ accepted = <<1, 2, 3>>


\* ------------------------------------------------------------------
\* Properties of the scheduler, of the flush timer and of the order of stop()

\* C31: a call that was in flight over a stop() and settles after the relay was
\* reactivated leaves the queue of the new Active period as it is
StaleLeavesQueue ==
    [][\A job \in running :
         (job \notin running' /\ queue # Null /\ Stale(job)) => queue' = queue]_vars

\* C32: stop() takes every waiting job out of the limiter, nothing waits while
\* the relay is Inactive, and a client.submit call begins only on an Active
\* relay, for a job that waited in the limiter of the current Active period
StopCancelsWaiting ==
    /\ [][stops' = stops + 1
            => /\ waiting' = 0
               /\ rejected' = rejected + waiting
               /\ calls' = calls]_vars
    /\ [][Len(calls') = Len(calls) + 1
            => /\ queue # Null /\ limiter # Null
               /\ waiting' = waiting - 1
               /\ calls'[Len(calls')].limiter = limiter.id]_vars
    /\ [](queue = Null => waiting = 0)

\* the job scheduled for the first item was dropped by stop(); the only call
\* made is that of the job scheduled after the relay was reactivated
DroppedJobNeverBegan ==
    /\ stops = 1 /\ limiters = 2 /\ submitted = 2
    /\ Len(calls) = 1
    /\ calls[1].limiter = 2 /\ calls[1].batch = <<2>>
    /\ waiting = 0

\* C33: while the relay is Active with items queued, a drain job waits in the
\* limiter or a client call is in flight, whose continuation schedules one
NoLostWakeup ==
    (queue # Null /\ Size(queue) > 0) => (waiting > 0 \/ running # {})

\* after a stop() and a reactivation, items are queued and nothing waits in the
\* limiter: the call in flight, made in this Active period, is all that is left
OnlyTheCallPending ==
    /\ stops = 1
    /\ queue # Null /\ Size(queue) = 2
    /\ waiting = 0 /\ ~submissionPending
    /\ \E job \in running : running = {job} /\ job.limiter = limiter.id

\* C34: at most one drain job waits in the limiter
AtMostOneWaiting == waiting <= 1

\* C35: the relay has a queue exactly when it has a limiter, and while it has
\* neither no flush() is outstanding, no flush timer is armed and
\* submissionPending is not set
ActiveOrInactive ==
    /\ (queue = Null) <=> (limiter = Null)
    /\ queue = Null
        => /\ flushWaiters = {}
           /\ flushTimer = Null
           /\ timers = {}
           /\ ~submissionPending

\* stop() has made the relay Inactive while a flush() was waiting and a job was
\* scheduled
StoppedWhilePending ==
    /\ stops = 1 /\ queue = Null /\ limiter = Null
    /\ rejected = 1
    /\ \E x \in resolved : x.waited

\* C36: the flush timer is armed exactly when a flush() is outstanding, and no
\* other timer is armed
TimerIffWaiter ==
    /\ (flushTimer # Null) <=> (flushWaiters # {})
    /\ timers = IF flushTimer = Null THEN {} ELSE {flushTimer}

\* two flush() calls are outstanding on the one timer, that of the first
TwoWaitersOneTimer ==
    /\ Cardinality(flushWaiters) = 2
    /\ flushTimer # Null /\ timers = {flushTimer}
    /\ flushTimer.by = 1

\* C37: an outstanding flush() is completed only when the queue is empty, when
\* its own timeout has passed, or by stop()
NeverCompletesEarly ==
    [][\A w \in flushWaiters :
         w \notin flushWaiters'
            => \/ queue' = Null
               \/ Size(queue') = 0
               \/ now >= w.deadline
               \/ stops' = stops + 1]_vars

\* C38: a stop() one of whose callbacks calls submit() completes the flush()
\* calls, notifies the items that were queued and no other, drops the waiting
\* jobs and calls client.destroy once; the submit() finds the relay Inactive,
\* so that it starts a new limiter and a new queue, which holds its item alone,
\* not notified, with a drain job scheduled
StopThenFreshRelay ==
    [][(stops' = stops + 1 /\ submitted' = submitted + 1)
        => /\ \A w \in flushWaiters : CompletedNext(w.id)
           /\ flushWaiters' = {} /\ timers' = {}
           /\ \A i \in Items :
                callbacks'[i] = IF InQueue(i)
                                THEN Append(callbacks[i], TransportClosed)
                                ELSE callbacks[i]
           /\ rejected' = rejected + waiting
           /\ destroyed' = destroyed + 1
           /\ limiters' = limiters + 1
           /\ limiter' # Null /\ limiter'.id = limiters'
           /\ queue' # Null /\ queue'.contents = <<submitted'>>
           /\ submissionPending' /\ waiting' = 1
           /\ errors' = errors]_vars

\* stop() was called with two items queued, and a callback submitted a third
CallbackSubmitted ==
    /\ stops = 1 /\ limiters = 2
    /\ queue # Null /\ queue.contents = <<3>>
    /\ callbacks[1] = <<TransportClosed>> /\ callbacks[2] = <<TransportClosed>>
    /\ callbacks[3] = <<>>
    /\ waiting = 1 /\ rejected = 1

\* C39: an item is notified of success only when a call that carried it
\* resolved, every other invocation of a callback carries an error and no ok
\* value, and a call that fails invokes no callback
SuccessOnlyIfAccepted ==
    /\ [](\A i \in Items : \A n \in 1 .. Len(callbacks[i]) :
            IF callbacks[i][n].err = "null"
            THEN /\ callbacks[i][n] = Success
                 /\ \E k \in 1 .. Len(calls) :
                        calls[k].outcome = Resolves /\ InSeq(i, calls[k].batch)
            ELSE callbacks[i][n].ok = "undefined")
    /\ [][\A k \in 1 .. Len(calls) :
            (\E name \in ErrorNames : Settled(k, name)) => callbacks' = callbacks]_vars

\* a first batch was reported as already accepted and its item never notified;
\* the next batch was accepted and its item notified of success
DuplicateThenSuccess ==
    /\ Len(calls) = 2
    /\ calls[1].outcome = "DataAlreadyAcceptedException" /\ calls[1].batch = <<1>>
    /\ calls[2].outcome = Resolves /\ calls[2].batch = <<2>>
    /\ callbacks[1] = <<>>
    /\ callbacks[2] = <<Success>>

====
